---- MODULE Spec2Model ----
\* A model of bfp, the Blender filesize profiler: the size-estimation
\* arithmetic of src/src/bfp/analysis.py, the traversal of
\* profile_blend_file / analyze_object, and the command line of
\* src/src/bfp/cli.py.
\*
\* Units.  The mesh, curve and particle estimates are Python ints (bytes).
\* The texture estimate is the Python float w*h*channels*(bits/8); it and
\* every sum it enters are carried here in EIGHTHS OF A BYTE (that is, bits),
\* which is exact: a name ending in _x8 holds 8 times the byte value.
EXTENDS Integers, Sequences, FiniteSets, TLC

VARIABLES
    est,                          \* SpecEst: the last estimate computed
    args,                         \* cli.main: the parsed command line
    bpy,                          \* the provider: what the scene file holds
    pc,                           \* position in main / profile_blend_file
    exc,                          \* the exception in flight, "none" if none
    objects_to_analyze,           \* profile_blend_file: the resolved object list
    idx,                          \* index of the object the for loop is at
    obj_pc,                       \* position inside analyze_object
    total_object_estimated_size,  \* analyze_object local, _x8
    mesh_data_original_size,      \* analyze_object local, bytes
    mesh_data_evaluated_size,     \* analyze_object local, bytes
    textures_total_size,          \* analyze_object local, _x8
    analyzed,                     \* history: one entry per finished analyze_object
    temp_meshes,                  \* provider: to_mesh results not yet cleared
    analysis_data,                \* main: what profile_blend_file returned
    serialized,                   \* calls of serialization.serialize_to_yaml
    visualized,                   \* calls of visualize_sunburst
    exit_code,                    \* <<status>> once the process has exited
    outcome                       \* history: how profile_blend_file ended

vars == <<est, args, bpy, pc, exc, objects_to_analyze, idx, obj_pc,
          total_object_estimated_size, mesh_data_original_size,
          mesh_data_evaluated_size, textures_total_size, analyzed,
          temp_meshes, analysis_data, serialized, visualized, exit_code,
          outcome>>

mainvars == <<args, bpy, pc, exc, objects_to_analyze, idx, obj_pc,
          total_object_estimated_size, mesh_data_original_size,
          mesh_data_evaluated_size, textures_total_size, analyzed,
          temp_meshes, analysis_data, serialized, visualized, exit_code,
          outcome>>

-----------------------------------------------------------------------------
\* Program constants.

SIZEOF_FLOAT == 4
SIZEOF_INT == 4
BITS_PER_BYTE == 8
KILO == 1024

\* Bounds of the model.
MaxCount == 2      \* structural counts are drawn from 0..MaxCount
MaxLayers == 2     \* UV layers, colour layers and splines per resource
MaxDepth == 8      \* reported image bit depths are drawn from 0..MaxDepth (and 32)
MaxChannels == 4   \* reported image channel counts are drawn from 0..MaxChannels
MaxObjects == 2    \* objects in a scene file built from the fixtures

-----------------------------------------------------------------------------
\* Helpers.

RECURSIVE SumSeq(_)
SumSeq(s) == IF s = <<>> THEN 0 ELSE Head(s) + SumSeq(Tail(s))

\* The sequences over S of length at most n.
SeqsUpTo(S, n) == UNION {[1 .. k -> S] : k \in 0 .. n}

-----------------------------------------------------------------------------
\* Size estimation (analysis.py).

\* The mutant of estimate_mesh_data_size: the custom-normals term is added
\* whether or not the mesh has custom normals.
estimate_mesh_data_size_normals_always(mesh) ==
      mesh.vertices * 3 * SIZEOF_FLOAT
    + mesh.edges * 2 * SIZEOF_INT
    + mesh.loops * 2 * SIZEOF_INT
    + mesh.polygons * 3 * SIZEOF_INT
    + SumSeq([k \in DOMAIN mesh.uv_layers |-> mesh.uv_layers[k] * 2 * SIZEOF_FLOAT])
    + SumSeq([k \in DOMAIN mesh.vertex_colors |-> mesh.vertex_colors[k] * 4 * SIZEOF_FLOAT])
    + mesh.loops * 3 * SIZEOF_FLOAT

\* estimate_mesh_data_size(mesh).  A mesh is its counts: len(mesh.vertices),
\* len(mesh.edges), len(mesh.loops), len(mesh.polygons), len(layer.data) for
\* each UV layer and each vertex-colour layer, and has_custom_normals.
estimate_mesh_data_size(mesh) ==
      mesh.vertices * 3 * SIZEOF_FLOAT
    + mesh.edges * 2 * SIZEOF_INT
    + mesh.loops * 2 * SIZEOF_INT
    + mesh.polygons * 3 * SIZEOF_INT
    + SumSeq([k \in DOMAIN mesh.uv_layers |-> mesh.uv_layers[k] * 2 * SIZEOF_FLOAT])
    + SumSeq([k \in DOMAIN mesh.vertex_colors |-> mesh.vertex_colors[k] * 4 * SIZEOF_FLOAT])
    + (IF mesh.has_custom_normals THEN mesh.loops * 3 * SIZEOF_FLOAT ELSE 0)

\* num_points and num_bezier_points: the sums over curve.splines.
num_points(curve) ==
    SumSeq([k \in DOMAIN curve.splines |-> curve.splines[k].points])

num_bezier_points(curve) ==
    SumSeq([k \in DOMAIN curve.splines |-> curve.splines[k].bezier_points])

curve_data_size(curve) ==
    (num_points(curve) * 3 * SIZEOF_FLOAT) + (num_bezier_points(curve) * 9 * SIZEOF_FLOAT)

\* bits_per_channel after both of its assignments: depth // channels when
\* depth >= channels > 0, else depth; then 8 if that is 0.
bits_per_channel(img) ==
    LET first == IF img.depth >= img.channels /\ img.channels > 0
                 THEN img.depth \div img.channels
                 ELSE img.depth
    IN  IF first = 0 THEN 8 ELSE first

\* channels after its reassignment: 4 if the image reports 0.
channels(img) == IF img.channels = 0 THEN 4 ELSE img.channels

\* The mutant of img_size_x8: the channel default is missed.
img_size_x8_no_channel_default(img) ==
    img.size[1] * img.size[2] * img.channels * bits_per_channel(img)

\* img_size = size[0] * size[1] * channels * (bits_per_channel / 8), in
\* eighths of a byte.
img_size_x8(img) ==
    img.size[1] * img.size[2] * channels(img) * bits_per_channel(img)

\* The mutant of particle_base_size: a hair strand costed as its
\* hair_step - 1 segments alone.
particle_base_size_segments_only(settings) ==
    IF settings.type = "HAIR"
    THEN settings.count * (settings.hair_step - 1) * (3 * SIZEOF_FLOAT)
    ELSE settings.count * (3 * SIZEOF_FLOAT)

particle_base_size(settings) ==
    settings.count * (3 * SIZEOF_FLOAT)
    + (IF settings.type = "HAIR"
       THEN settings.count * settings.hair_step * (3 * SIZEOF_FLOAT)
       ELSE 0)

-----------------------------------------------------------------------------
\* format_size (analysis.py).

size_name == <<"B", "KB", "MB", "GB", "TB">>

RECURSIVE Pow1024(_)
Pow1024(i) == IF i = 0 THEN 1 ELSE KILO * Pow1024(i - 1)

RECURSIVE FloorLog1024(_)
FloorLog1024(n) == IF n < KILO THEN 0 ELSE 1 + FloorLog1024(n \div KILO)

\* i = int(math.floor(math.log(size_bytes, 1024))) for size_bytes = x8/8 > 0.
\* A size below one byte is at least 1/8 > 1/1024, so its logarithm lies in
\* (-1, 0) and floors to -1.
LogIndex(x8) ==
    IF x8 < BITS_PER_BYTE THEN -1 ELSE FloorLog1024(x8 \div BITS_PER_BYTE)

\* round(num/den, 0) as Python rounds: to nearest, an exact tie to even.
RoundHalfEven(num, den) ==
    LET q == num \div den
        r == num % den
    IN  IF 2 * r < den THEN q
        ELSE IF 2 * r > den THEN q + 1
        ELSE IF q % 2 = 0 THEN q ELSE q + 1

\* s = round(size_bytes / p, 2) with p = 1024^i, in hundredths.
RoundedValue_x100(x8, i) ==
    IF i < 0
    THEN x8 * (KILO \div BITS_PER_BYTE) * 100
    ELSE LET p_x8 == BITS_PER_BYTE * Pow1024(i)
         IN  100 * (x8 \div p_x8) + RoundHalfEven(100 * (x8 % p_x8), p_x8)

\* format_size(size_bytes) for size_bytes = x8/8.  The result is the text
\* "<s> <unit>": s_x100 is s in hundredths (decimals = FALSE for the literal
\* "0 B"); raises = TRUE stands for the IndexError of size_name[i].  A
\* negative i indexes the tuple from its end, as Python does.
format_size(x8) ==
    IF x8 = 0
    THEN [raises |-> FALSE, s_x100 |-> 0, decimals |-> FALSE, unit |-> "B"]
    ELSE LET i == LogIndex(x8)
             at == IF i >= 0 THEN i + 1 ELSE Len(size_name) + i + 1
         IN  IF at \in DOMAIN size_name
             THEN [raises |-> FALSE, s_x100 |-> RoundedValue_x100(x8, i),
                   decimals |-> TRUE, unit |-> size_name[at]]
             ELSE [raises |-> TRUE, s_x100 |-> 0, decimals |-> FALSE, unit |-> ""]

-----------------------------------------------------------------------------
\* The values the provider can report.

Counts == 0 .. MaxCount

LayerSeqs == SeqsUpTo(Counts, MaxLayers)

Mesh(v, e, l, p, uv, vc, n) ==
    [vertices |-> v, edges |-> e, loops |-> l, polygons |-> p,
     uv_layers |-> uv, vertex_colors |-> vc, has_custom_normals |-> n]

\* A cube: 8 vertices, 12 edges, 6 quads (24 loops).
CubeMesh == Mesh(8, 12, 24, 6, <<>>, <<>>, FALSE)

\* The cube after one level of subdivision, with a UV map.
SubdividedCubeMesh == Mesh(26, 48, 96, 24, <<96>>, <<>>, TRUE)

MeshInputs ==
    {Mesh(v, e, l, p, <<>>, <<>>, n) :
        v \in Counts, e \in Counts, l \in Counts, p \in Counts, n \in BOOLEAN}
    \cup {Mesh(1, 1, l, 1, uv, vc, n) :
        l \in {1}, uv \in LayerSeqs, vc \in LayerSeqs, n \in BOOLEAN}
    \cup {CubeMesh, SubdividedCubeMesh}

Spline(np, nb) == [points |-> np, bezier_points |-> nb]

CurveInputs ==
    {[splines |-> s] :
        s \in SeqsUpTo({Spline(np, nb) : np \in Counts, nb \in Counts}, MaxLayers)}

Image(w, h, c, d) == [size |-> <<w, h>>, channels |-> c, depth |-> d]

Dims == (0 .. MaxCount) \cup {1024}

ImageInputs ==
    {Image(w, h, c, d) :
        w \in Dims, h \in Dims, c \in 0 .. MaxChannels, d \in (0 .. MaxDepth) \cup {32}}

Settings(t, c, hs) == [type |-> t, count |-> c, hair_step |-> hs]

SettingsInputs ==
    {Settings(t, c, hs) :
        t \in {"HAIR", "EMITTER"}, c \in Counts \cup {200}, hs \in Counts \cup {5}}

-----------------------------------------------------------------------------
\* One count input of a resource, and the resource with that input one larger.

Axis(f, k) == [field |-> f, layer |-> k]

MeshAxes(mesh) ==
    {Axis(f, 0) : f \in {"vertices", "edges", "loops", "polygons"}}
    \cup {Axis("uv_layers", k) : k \in DOMAIN mesh.uv_layers}
    \cup {Axis("vertex_colors", k) : k \in DOMAIN mesh.vertex_colors}

BumpMesh(mesh, axis) ==
    CASE axis.field = "vertices" -> [mesh EXCEPT !.vertices = @ + 1]
      [] axis.field = "edges" -> [mesh EXCEPT !.edges = @ + 1]
      [] axis.field = "loops" -> [mesh EXCEPT !.loops = @ + 1]
      [] axis.field = "polygons" -> [mesh EXCEPT !.polygons = @ + 1]
      [] axis.field = "uv_layers" -> [mesh EXCEPT !.uv_layers[axis.layer] = @ + 1]
      [] axis.field = "vertex_colors" -> [mesh EXCEPT !.vertex_colors[axis.layer] = @ + 1]

CurveAxes(curve) ==
    {Axis(f, k) : f \in {"points", "bezier_points"}, k \in DOMAIN curve.splines}

BumpCurve(curve, axis) ==
    IF axis.field = "points"
    THEN [curve EXCEPT !.splines[axis.layer].points = @ + 1]
    ELSE [curve EXCEPT !.splines[axis.layer].bezier_points = @ + 1]

ImageAxes == {Axis(f, 0) : f \in {"width", "height", "channels", "depth"}}

BumpImage(img, axis) ==
    CASE axis.field = "width" -> [img EXCEPT !.size[1] = @ + 1]
      [] axis.field = "height" -> [img EXCEPT !.size[2] = @ + 1]
      [] axis.field = "channels" -> [img EXCEPT !.channels = @ + 1]
      [] axis.field = "depth" -> [img EXCEPT !.depth = @ + 1]

SettingsAxes == {Axis(f, 0) : f \in {"count", "hair_step"}}

BumpSettings(settings, axis) ==
    IF axis.field = "count"
    THEN [settings EXCEPT !.count = @ + 1]
    ELSE [settings EXCEPT !.hair_step = @ + 1]

-----------------------------------------------------------------------------
\* SpecEst: the estimation functions applied to provider values.  A state
\* holds one resource and one of its count inputs; the action for its kind
\* computes the estimate as analyze_object does, formats it as
\* analyze_object prints it, and computes the estimate of the same resource
\* with that one input one larger.

Pending(fn, input, axis) ==
    [fn |-> fn, input |-> input, axis |-> axis, done |-> FALSE,
     out_x8 |-> 0, text |-> format_size(0), up_x8 |-> 0]

NoEst == Pending("none", <<>>, Axis("none", 0))

Estimated(out_x8, up_x8) ==
    [est EXCEPT !.done = TRUE, !.out_x8 = out_x8, !.text = format_size(out_x8),
                !.up_x8 = up_x8]

\* analysis.py 77-79: mesh_data_original_size and its print.
EstimateMesh ==
    /\ est.fn = "mesh" /\ ~est.done
    /\ est' = Estimated(
                 BITS_PER_BYTE * estimate_mesh_data_size(est.input),
                 BITS_PER_BYTE * estimate_mesh_data_size(BumpMesh(est.input, est.axis)))
    /\ UNCHANGED mainvars

\* analysis.py 134-153: curve_data_size and its print.
EstimateCurve ==
    /\ est.fn = "curve" /\ ~est.done
    /\ est' = Estimated(
                 BITS_PER_BYTE * curve_data_size(est.input),
                 BITS_PER_BYTE * curve_data_size(BumpCurve(est.input, est.axis)))
    /\ UNCHANGED mainvars

\* analysis.py 191-227: img_size and its print.
EstimateTexture ==
    /\ est.fn = "texture" /\ ~est.done
    /\ est' = Estimated(img_size_x8(est.input),
                        img_size_x8(BumpImage(est.input, est.axis)))
    /\ UNCHANGED mainvars

\* analysis.py 265-272: particle_base_size and its print.
EstimateParticles ==
    /\ est.fn = "particles" /\ ~est.done
    /\ est' = Estimated(
                 BITS_PER_BYTE * particle_base_size(est.input),
                 BITS_PER_BYTE * particle_base_size(BumpSettings(est.input, est.axis)))
    /\ UNCHANGED mainvars

NextEst == EstimateMesh \/ EstimateCurve \/ EstimateTexture \/ EstimateParticles

-----------------------------------------------------------------------------
\* The scene file: objects, materials, particle systems.

ImageNode(img) == [type |-> "TEX_IMAGE", has_image |-> TRUE, image |-> img]

\* An image-texture node with no image assigned (node.image is None).
UnassignedImageNode ==
    [type |-> "TEX_IMAGE", has_image |-> FALSE, image |-> Image(0, 0, 0, 0)]

\* A node of another type; it has no image attribute the code reads.
ShaderNode ==
    [type |-> "BSDF_PRINCIPLED", has_image |-> FALSE, image |-> Image(0, 0, 0, 0)]

\* slot.material, mat.use_nodes, mat.node_tree (a None tree: has_node_tree
\* FALSE) and mat.node_tree.nodes.
Slot(material, use_nodes, has_node_tree, nodes) ==
    [material |-> material, use_nodes |-> use_nodes,
     has_node_tree |-> has_node_tree, nodes |-> nodes]

EmptySlot == Slot(FALSE, FALSE, FALSE, <<>>)

Tex4MB == Image(1024, 1024, 4, 32)   \* RGBA, 8 bits per channel
TexRGB == Image(2, 2, 3, 24)
TexPacked == Image(1, 1, 4, 1)       \* depth below the channel count
TexUnloaded == Image(2, 1, 0, 0)     \* channels and depth reported as 0

SlotLists ==
    { <<>>,
      <<EmptySlot>>,
      <<Slot(TRUE, TRUE, TRUE, <<ShaderNode, ImageNode(Tex4MB), UnassignedImageNode>>)>>,
      <<Slot(TRUE, FALSE, TRUE, <<ImageNode(TexRGB)>>),
        Slot(TRUE, TRUE, TRUE, <<ImageNode(TexPacked), ImageNode(TexRGB)>>)>>,
      <<Slot(TRUE, TRUE, FALSE, <<>>),
        EmptySlot,
        Slot(TRUE, TRUE, TRUE, <<ImageNode(TexUnloaded)>>)>> }

ParticleLists ==
    { <<>>,
      <<Settings("HAIR", 200, 5)>>,
      <<Settings("EMITTER", 2, 5), Settings("HAIR", 1, 2)>> }

\* What evaluating a mesh object does (analysis.py 99-129):
\*   "mesh"        to_mesh returns a mesh and every later call succeeds
\*   "none"        to_mesh returns None
\*   "raise_eval"  evaluated_depsgraph_get, evaluated_get or to_mesh raises
\*   "raise_read"  to_mesh returns a mesh, then reading it raises
\*   "raise_clear" to_mesh returns a mesh, it is measured, to_mesh_clear raises
EvalOutcomes == {"mesh", "none", "raise_eval", "raise_read", "raise_clear"}

RaisingOutcomes == {"raise_eval", "raise_read", "raise_clear"}

NoData == [none |-> TRUE]

Light == [type |-> "POINT", energy |-> 10]

TwoSplineCurve == [splines |-> <<Spline(2, 0), Spline(0, 3)>>]

\* An object: obj.type, obj.data, what evaluating it does, the mesh to_mesh
\* builds, obj.material_slots, obj.particle_systems (their settings), and
\* whether the provider fails while the materials are read.
Object(type, data, ev, slots, psys, fault) ==
    [type |-> type, data |-> data, eval |-> ev,
     eval_mesh |-> SubdividedCubeMesh, material_slots |-> slots,
     particle_systems |-> psys, fault |-> fault]

Kinds ==
    {<<"MESH", CubeMesh, o>> : o \in EvalOutcomes}
    \cup {<<"CURVE", TwoSplineCurve, "mesh">>,
          <<"LIGHT", Light, "mesh">>,
          <<"EMPTY", NoData, "mesh">>}

Objects ==
    {Object(k[1], k[2], k[3], sl, ps, FALSE) :
        k \in Kinds, sl \in SlotLists, ps \in ParticleLists}
    \cup {Object(k[1], k[2], k[3], <<EmptySlot>>, <<>>, TRUE) : k \in Kinds}

\* The objects that multi-object files are built from.
Fixtures ==
    { Object("MESH", CubeMesh, "mesh",
             <<Slot(TRUE, TRUE, TRUE, <<ImageNode(TexRGB)>>)>>, <<>>, FALSE),
      Object("MESH", CubeMesh, "raise_eval",
             <<Slot(TRUE, TRUE, TRUE, <<ImageNode(TexPacked)>>)>>,
             <<Settings("HAIR", 1, 2)>>, FALSE),
      Object("CURVE", TwoSplineCurve, "mesh", <<>>, <<Settings("EMITTER", 2, 5)>>, FALSE),
      Object("LIGHT", Light, "mesh", <<>>, <<>>, FALSE),
      Object("EMPTY", NoData, "mesh", <<EmptySlot>>, <<>>, TRUE) }

\* bpy after open_mainfile: whether the file opens, bpy.data.objects, and
\* bpy.context.scene (has_scene FALSE: None) with its objects.
File(opens, objects, has_scene, scene_objects) ==
    [opens |-> opens, objects |-> objects, has_scene |-> has_scene,
     scene_objects |-> scene_objects]

UnopenableFile == File(FALSE, <<>>, FALSE, <<>>)

ObjectLists == {<<o>> : o \in Objects} \cup SeqsUpTo(Fixtures, MaxObjects)

\* The active scene links all of the file's objects, or all but the last
\* (an object no scene uses), or there is no active scene.
Files ==
    {File(TRUE, D, TRUE, D) : D \in ObjectLists}
    \cup {File(TRUE, D, TRUE, SubSeq(D, 1, Len(D) - 1)) : D \in ObjectLists \ {<<>>}}
    \cup {File(TRUE, D, FALSE, <<>>) : D \in ObjectLists}
    \cup {UnopenableFile}

\* args after parse_args: input_is_yaml (the path ends in .yaml or .yml),
\* --all-objects, --verbose, --save given, --web.
ArgSets ==
    [input_is_yaml : BOOLEAN, all_objects : BOOLEAN, verbose : BOOLEAN,
     save : BOOLEAN, web : BOOLEAN]

DefaultArgs ==
    [input_is_yaml |-> FALSE, all_objects |-> FALSE, verbose |-> FALSE,
     save |-> FALSE, web |-> FALSE]

\* Python's None, and the truth value and status of what main holds in
\* analysis_data.
None == [py |-> "None"]

Truthy(d) == d.py # "None"

StatusIs(d, status) == Truthy(d) /\ d.status = status

-----------------------------------------------------------------------------
\* analyze_object, step by step.

\* Whether the except clause of analysis.py 124 catches a failure of the
\* evaluation (the mutant: it catches only a failure of the evaluation
\* calls themselves).
except_catches_evaluation_only(ev) == ev = "raise_eval"

except_catches(ev) == ev \in RaisingOutcomes

\* The mutant of own_size: the evaluated estimate is added as well.
own_size_with_evaluated(obj) ==
    IF obj.type = "MESH"
    THEN estimate_mesh_data_size(obj.data) + estimate_mesh_data_size(obj.eval_mesh)
    ELSE IF obj.type = "CURVE" THEN curve_data_size(obj.data) ELSE 0

\* What the branch on obj.type adds to total_object_estimated_size
\* (analysis.py 67-165), in bytes.
own_size(obj) ==
    IF obj.type = "MESH" THEN estimate_mesh_data_size(obj.data)
    ELSE IF obj.type = "CURVE" THEN curve_data_size(obj.data)
    ELSE 0

\* mesh_data_evaluated_size after the try statement (analysis.py 99-129).
evaluated_size(obj) ==
    IF obj.type # "MESH" THEN 0
    ELSE IF obj.eval = "mesh" THEN estimate_mesh_data_size(obj.eval_mesh)
    ELSE IF obj.eval = "none" THEN 0
    ELSE estimate_mesh_data_size(obj.data)

\* material_textures_size: the loop over mat.node_tree.nodes.
RECURSIVE material_textures_size_x8(_)
material_textures_size_x8(nodes) ==
    IF nodes = <<>> THEN 0
    ELSE (IF Head(nodes).type = "TEX_IMAGE" /\ Head(nodes).has_image
          THEN img_size_x8(Head(nodes).image) ELSE 0)
         + material_textures_size_x8(Tail(nodes))

\* slot_textures_total_size: the loop over obj.material_slots.
RECURSIVE slot_textures_total_size_x8(_)
slot_textures_total_size_x8(slots) ==
    IF slots = <<>> THEN 0
    ELSE (IF Head(slots).material
          THEN (IF Head(slots).use_nodes /\ Head(slots).has_node_tree
                THEN material_textures_size_x8(Head(slots).nodes) ELSE 0)
          ELSE 0)
         + slot_textures_total_size_x8(Tail(slots))

\* The sum the loop over obj.particle_systems adds to the total, in bytes.
RECURSIVE particles_total_size(_)
particles_total_size(systems) ==
    IF systems = <<>> THEN 0
    ELSE particle_base_size(Head(systems)) + particles_total_size(Tail(systems))

obj == objects_to_analyze[idx]

InLoop == pc = "loop" /\ idx <= Len(objects_to_analyze)

\* analysis.py 60-165: the locals are reset, the branch on obj.type runs, and
\* for a mesh the evaluation is attempted inside the try statement.  A
\* failure the except clause does not catch leaves analyze_object and
\* profile_blend_file.  A mesh that to_mesh built stays with the provider
\* unless to_mesh_clear is reached; when to_mesh_clear itself raises, whether
\* the mesh was freed is the provider's affair.
AnalyzeGeometry ==
    /\ InLoop /\ obj_pc = "start"
    /\ IF obj.type = "MESH" /\ obj.eval \in RaisingOutcomes /\ ~except_catches(obj.eval)
       THEN /\ pc' = "except" /\ exc' = "Exception" /\ outcome' = "provider_failure"
            /\ UNCHANGED <<obj_pc, total_object_estimated_size,
                           mesh_data_original_size, mesh_data_evaluated_size,
                           textures_total_size, temp_meshes>>
       ELSE /\ mesh_data_original_size' =
                   (IF obj.type = "MESH" THEN estimate_mesh_data_size(obj.data) ELSE 0)
            /\ total_object_estimated_size' = BITS_PER_BYTE * own_size(obj)
            /\ mesh_data_evaluated_size' = evaluated_size(obj)
            /\ textures_total_size' = 0
            /\ \E freed \in BOOLEAN :
                  temp_meshes' =
                      IF obj.type = "MESH" /\ obj.eval = "raise_read"
                      THEN temp_meshes + 1
                      ELSE IF obj.type = "MESH" /\ obj.eval = "raise_clear" /\ ~freed
                           THEN temp_meshes + 1
                           ELSE temp_meshes
            /\ obj_pc' = "materials"
            /\ UNCHANGED <<pc, exc, outcome>>
    /\ UNCHANGED <<est, args, bpy, objects_to_analyze, idx, analyzed,
                   analysis_data, serialized, visualized, exit_code>>

\* analysis.py 167-252: the texture sizes of the material slots are summed
\* into textures_total_size and added to the total.
AnalyzeMaterials ==
    /\ InLoop /\ obj_pc = "materials" /\ ~obj.fault
    /\ textures_total_size' = slot_textures_total_size_x8(obj.material_slots)
    /\ total_object_estimated_size' =
           total_object_estimated_size
           + slot_textures_total_size_x8(obj.material_slots)
    /\ obj_pc' = "particles"
    /\ UNCHANGED <<est, args, bpy, pc, exc, objects_to_analyze, idx,
                   mesh_data_original_size, mesh_data_evaluated_size, analyzed,
                   temp_meshes, analysis_data, serialized, visualized,
                   exit_code, outcome>>

\* analysis.py 167-252 when a provider call made there raises: nothing in
\* analyze_object or profile_blend_file catches it.
AnalyzeMaterialsFails ==
    /\ InLoop /\ obj_pc = "materials" /\ obj.fault
    /\ pc' = "except" /\ exc' = "Exception" /\ outcome' = "provider_failure"
    /\ UNCHANGED <<est, args, bpy, objects_to_analyze, idx, obj_pc,
                   total_object_estimated_size, mesh_data_original_size,
                   mesh_data_evaluated_size, textures_total_size, analyzed,
                   temp_meshes, analysis_data, serialized, visualized, exit_code>>

\* What analyze_object printed for an object at analysis.py 281-287, with
\* the locals it ended with.
ObjectReport ==
    [obj |-> obj,
     total_x8 |-> total_object_estimated_size
                  + BITS_PER_BYTE * particles_total_size(obj.particle_systems),
     mesh_data_original_size |-> mesh_data_original_size,
     mesh_data_evaluated_size |-> mesh_data_evaluated_size,
     textures_total_size_x8 |-> textures_total_size]

\* analysis.py 254-287: the particle estimates are added to the total, the
\* object's total is printed, analyze_object returns and the for loop of
\* profile_blend_file moves to the next object.
AnalyzeParticles ==
    /\ InLoop /\ obj_pc = "particles"
    /\ total_object_estimated_size' =
           total_object_estimated_size
           + BITS_PER_BYTE * particles_total_size(obj.particle_systems)
    /\ analyzed' = Append(analyzed, ObjectReport)
    /\ idx' = idx + 1
    /\ obj_pc' = "start"
    /\ UNCHANGED <<est, args, bpy, pc, exc, objects_to_analyze,
                   mesh_data_original_size, mesh_data_evaluated_size,
                   textures_total_size, temp_meshes, analysis_data, serialized,
                   visualized, exit_code, outcome>>

-----------------------------------------------------------------------------
\* profile_blend_file.

\* analysis.py 301-303: open_mainfile succeeds.
OpenMainfile ==
    /\ pc = "open" /\ bpy.opens
    /\ pc' = "resolve"
    /\ UNCHANGED <<est, args, bpy, exc, objects_to_analyze, idx, obj_pc,
                   total_object_estimated_size, mesh_data_original_size,
                   mesh_data_evaluated_size, textures_total_size, analyzed,
                   temp_meshes, analysis_data, serialized, visualized,
                   exit_code, outcome>>

\* analysis.py 304-309: open_mainfile raises RuntimeError, which is printed
\* and raised again.
OpenMainfileFails ==
    /\ pc = "open" /\ ~bpy.opens
    /\ pc' = "except" /\ exc' = "RuntimeError" /\ outcome' = "cannot_open"
    /\ UNCHANGED <<est, args, bpy, objects_to_analyze, idx, obj_pc,
                   total_object_estimated_size, mesh_data_original_size,
                   mesh_data_evaluated_size, textures_total_size, analyzed,
                   temp_meshes, analysis_data, serialized, visualized, exit_code>>

\* The provider's enumeration for the scope asked for.
Enumeration == IF args.all_objects THEN bpy.objects ELSE bpy.scene_objects

\* analysis.py 311-318: the object list is resolved.
ResolveObjects ==
    /\ pc = "resolve" /\ (args.all_objects \/ bpy.has_scene)
    /\ objects_to_analyze' = Enumeration
    /\ idx' = 1
    /\ pc' = "loop"
    /\ UNCHANGED <<est, args, bpy, exc, obj_pc, total_object_estimated_size,
                   mesh_data_original_size, mesh_data_evaluated_size,
                   textures_total_size, analyzed, temp_meshes, analysis_data,
                   serialized, visualized, exit_code, outcome>>

\* What profile_blend_file returns at analysis.py 327 (a bare return).
no_scene_result == None

\* analysis.py 319-327: active-scene scope and no active scene; two
\* messages are printed and the function returns.
NoActiveScene ==
    /\ pc = "resolve" /\ ~args.all_objects /\ ~bpy.has_scene
    /\ analysis_data' = no_scene_result
    /\ outcome' = "no_active_scene"
    /\ pc' = "returned"
    /\ UNCHANGED <<est, args, bpy, exc, objects_to_analyze, idx, obj_pc,
                   total_object_estimated_size, mesh_data_original_size,
                   mesh_data_evaluated_size, textures_total_size, analyzed,
                   temp_meshes, serialized, visualized, exit_code>>

\* What profile_blend_file returns when it runs off its end (analysis.py
\* 338 is its last statement).
complete_result == None

\* analysis.py 329-338: the loop is over (or there was nothing to analyze),
\* "Analysis complete" is printed and the function returns.
AnalysisComplete ==
    /\ pc = "loop" /\ idx > Len(objects_to_analyze)
    /\ analysis_data' = complete_result
    /\ outcome' = "complete"
    /\ pc' = "returned"
    /\ UNCHANGED <<est, args, bpy, exc, objects_to_analyze, idx, obj_pc,
                   total_object_estimated_size, mesh_data_original_size,
                   mesh_data_evaluated_size, textures_total_size, analyzed,
                   temp_meshes, serialized, visualized, exit_code>>

-----------------------------------------------------------------------------
\* cli.main.

\* cli.py 63-68: the input is a saved report; it is handed to the
\* visualizer and the process exits with 0.
CliVisualizeYaml ==
    /\ pc = "main" /\ args.input_is_yaml
    /\ visualized' = visualized + 1
    /\ exit_code' = <<0>>
    /\ pc' = "exited"
    /\ UNCHANGED <<est, args, bpy, exc, objects_to_analyze, idx, obj_pc,
                   total_object_estimated_size, mesh_data_original_size,
                   mesh_data_evaluated_size, textures_total_size, analyzed,
                   temp_meshes, analysis_data, serialized, outcome>>

\* cli.py 70-82: the input is a scene file; profile_blend_file is called.
CliBeginAnalysis ==
    /\ pc = "main" /\ ~args.input_is_yaml
    /\ pc' = "open"
    /\ UNCHANGED <<est, args, bpy, exc, objects_to_analyze, idx, obj_pc,
                   total_object_estimated_size, mesh_data_original_size,
                   mesh_data_evaluated_size, textures_total_size, analyzed,
                   temp_meshes, analysis_data, serialized, visualized,
                   exit_code, outcome>>

\* cli.py 84-99: profile_blend_file has returned; the raw data (verbose) or
\* the summary or the failure message is printed.  Nothing is assigned.
CliReport ==
    /\ pc = "returned"
    /\ pc' = "save"
    /\ UNCHANGED <<est, args, bpy, exc, objects_to_analyze, idx, obj_pc,
                   total_object_estimated_size, mesh_data_original_size,
                   mesh_data_evaluated_size, textures_total_size, analyzed,
                   temp_meshes, analysis_data, serialized, visualized,
                   exit_code, outcome>>

\* cli.py 101-110: an exception left profile_blend_file; each of the three
\* handlers prints it and exits with 1.
CliExcept ==
    /\ pc = "except"
    /\ exit_code' = <<1>>
    /\ pc' = "exited"
    /\ UNCHANGED <<est, args, bpy, exc, objects_to_analyze, idx, obj_pc,
                   total_object_estimated_size, mesh_data_original_size,
                   mesh_data_evaluated_size, textures_total_size, analyzed,
                   temp_meshes, analysis_data, serialized, visualized, outcome>>

\* cli.py 112-120: the report is serialized when --save is given and the
\* analysis succeeded; serialize_to_yaml catches its own failures.
CliSave ==
    /\ pc = "save"
    /\ serialized' =
           IF args.save /\ StatusIs(analysis_data, "success")
           THEN serialized + 1 ELSE serialized
    /\ pc' = "web"
    /\ UNCHANGED <<est, args, bpy, exc, objects_to_analyze, idx, obj_pc,
                   total_object_estimated_size, mesh_data_original_size,
                   mesh_data_evaluated_size, textures_total_size, analyzed,
                   temp_meshes, analysis_data, visualized, exit_code, outcome>>

\* cli.py 122-134: the report is visualized when --web is given and the
\* analysis succeeded; then the process exits: with 1 when the report's
\* status is "error", else with 0 (by sys.exit(0), or with --web by
\* returning from main).
CliWebAndExit ==
    /\ pc = "web"
    /\ visualized' =
           IF args.web /\ StatusIs(analysis_data, "success")
           THEN visualized + 1 ELSE visualized
    /\ exit_code' = IF StatusIs(analysis_data, "error") THEN <<1>> ELSE <<0>>
    /\ pc' = "exited"
    /\ UNCHANGED <<est, args, bpy, exc, objects_to_analyze, idx, obj_pc,
                   total_object_estimated_size, mesh_data_original_size,
                   mesh_data_evaluated_size, textures_total_size, analyzed,
                   temp_meshes, analysis_data, serialized, outcome>>

-----------------------------------------------------------------------------
\* The specifications.

\* main before its first statement has run on the parsed arguments.
InitMain(a, f) ==
    /\ args = a
    /\ bpy = f
    /\ pc = "main"
    /\ exc = "none"
    /\ objects_to_analyze = <<>>
    /\ idx = 1
    /\ obj_pc = "start"
    /\ total_object_estimated_size = 0
    /\ mesh_data_original_size = 0
    /\ mesh_data_evaluated_size = 0
    /\ textures_total_size = 0
    /\ analyzed = <<>>
    /\ temp_meshes = 0
    /\ analysis_data = None
    /\ serialized = 0
    /\ visualized = 0
    /\ exit_code = <<>>
    /\ outcome = "running"

\* A report file as input names no scene file.
Init ==
    /\ est = NoEst
    /\ \E a \in ArgSets, f \in Files :
          /\ a.input_is_yaml => f = UnopenableFile
          /\ InitMain(a, f)

Next ==
    \/ CliVisualizeYaml
    \/ CliBeginAnalysis
    \/ OpenMainfile
    \/ OpenMainfileFails
    \/ ResolveObjects
    \/ NoActiveScene
    \/ AnalyzeGeometry
    \/ AnalyzeMaterials
    \/ AnalyzeMaterialsFails
    \/ AnalyzeParticles
    \/ AnalysisComplete
    \/ CliReport
    \/ CliExcept
    \/ CliSave
    \/ CliWebAndExit

Spec == Init /\ [][Next]_vars

\* A resource the provider can report and one of its count inputs; no
\* command line is running.
InitEst ==
    /\ \/ \E m \in MeshInputs : \E ax \in MeshAxes(m) : est = Pending("mesh", m, ax)
       \/ \E c \in CurveInputs : \E ax \in CurveAxes(c) : est = Pending("curve", c, ax)
       \/ \E img \in ImageInputs : \E ax \in ImageAxes : est = Pending("texture", img, ax)
       \/ \E st \in SettingsInputs : \E ax \in SettingsAxes :
              est = Pending("particles", st, ax)
    /\ InitMain(DefaultArgs, UnopenableFile)

SpecEst == InitEst /\ [][NextEst]_vars

-----------------------------------------------------------------------------
\* Properties: the traversal (checked under Spec).

\* The sum of the function f over the finite set S.
RECURSIVE SumOver(_, _)
SumOver(S, f) ==
    IF S = {} THEN 0
    ELSE LET x == CHOOSE y \in S : TRUE
         IN  f[x] + SumOver(S \ {x}, f)

\* The image textures of an object: <<slot, node>> for every image-texture
\* node holding an image in the node tree of a slot's material.
ImageTexturesOf(o) ==
    {t \in UNION {{<<i, j>> : j \in DOMAIN o.material_slots[i].nodes} :
                      i \in DOMAIN o.material_slots} :
        /\ o.material_slots[t[1]].material
        /\ o.material_slots[t[1]].use_nodes
        /\ o.material_slots[t[1]].has_node_tree
        /\ o.material_slots[t[1]].nodes[t[2]].type = "TEX_IMAGE"
        /\ o.material_slots[t[1]].nodes[t[2]].has_image}

TextureEstimates_x8(o) ==
    SumOver(ImageTexturesOf(o),
            [t \in ImageTexturesOf(o) |->
                img_size_x8(o.material_slots[t[1]].nodes[t[2]].image)])

ParticleEstimates(o) ==
    SumOver(DOMAIN o.particle_systems,
            [k \in DOMAIN o.particle_systems |->
                particle_base_size(o.particle_systems[k])])

\* The object's own resource estimate: the raw mesh estimate, the curve
\* estimate, 0 for a light or an unsupported kind.
OwnEstimate(o) ==
    CASE o.type = "MESH" -> estimate_mesh_data_size(o.data)
      [] o.type = "CURVE" -> curve_data_size(o.data)
      [] OTHER -> 0

\* C1: at the end of analyze_object the object's total is its own resource
\* estimate plus the estimates of all its image textures plus the estimates
\* of all its particle systems, for every kind of object and whatever the
\* evaluation of a mesh did; the evaluated-mesh estimate is no part of it.
C1_TotalIsOwnTexturesParticles ==
    \A k \in DOMAIN analyzed :
        LET r == analyzed[k]
        IN  r.total_x8 = BITS_PER_BYTE * OwnEstimate(r.obj)
                         + TextureEstimates_x8(r.obj)
                         + BITS_PER_BYTE * ParticleEstimates(r.obj)

\* A mesh object whose evaluation succeeded with a non-zero evaluated
\* estimate, with textures and particle systems, has been analyzed.
C1_Witness ==
    \E k \in DOMAIN analyzed :
        LET r == analyzed[k]
        IN  /\ r.obj.type = "MESH" /\ r.obj.eval = "mesh"
            /\ r.mesh_data_evaluated_size > 0
            /\ TextureEstimates_x8(r.obj) > 0
            /\ ParticleEstimates(r.obj) > 0
            /\ r.total_x8 > BITS_PER_BYTE * r.mesh_data_original_size

Returned == pc \in {"returned", "save", "web", "exited"}

SumOfObjectTotals_x8 ==
    SumOver(DOMAIN analyzed, [k \in DOMAIN analyzed |-> analyzed[k].total_x8])

\* C2: when an analysis run completes, the scene summary handed to the
\* caller holds the sum of the analyzed objects' totals and the number of
\* objects enumerated for the scope.
C2_SummaryTotalsTheObjects ==
    (Returned /\ outcome = "complete") =>
        /\ Truthy(analysis_data)
        /\ analysis_data.summary.total_estimated_size_all_objects_x8
               = SumOfObjectTotals_x8
        /\ analysis_data.summary.total_objects_analyzed = Len(Enumeration)

\* C3: with active-scene scope and no active scene the run ends with no
\* object analyzed and a result of failed status, which differs from the
\* result of a completed analysis.
C3_NoActiveSceneIsAFailedReport ==
    (Returned /\ outcome = "no_active_scene") =>
        /\ analyzed = <<>>
        /\ StatusIs(analysis_data, "error")
        /\ analysis_data # complete_result

\* C4: for a scene-file input the process exits with 0 when the analysis
\* completed and with a non-zero status when the file could not be opened,
\* when there was no active scene, or when a provider call failed during
\* the traversal, whatever the flags.
C4_ExitCodeTellsFailure ==
    (pc = "exited" /\ ~args.input_is_yaml) =>
        /\ outcome = "complete" => exit_code = <<0>>
        /\ outcome \in {"cannot_open", "no_active_scene", "provider_failure"}
               => exit_code # <<0>>

\* C5: for a mesh object the evaluated estimate is the geometry estimate of
\* the evaluated mesh when the evaluation succeeds, and the raw mesh
\* estimate when the provider returns no mesh or the evaluation raises.
C5_EvaluatedFallsBackToRaw ==
    \A k \in DOMAIN analyzed :
        LET r == analyzed[k]
        IN  r.obj.type = "MESH" =>
                r.mesh_data_evaluated_size =
                    IF r.obj.eval = "mesh"
                    THEN estimate_mesh_data_size(r.obj.eval_mesh)
                    ELSE estimate_mesh_data_size(r.obj.data)

\* C6: the objects enumerated for the scope are analyzed once each, in the
\* enumeration's order, and all of them before completion is reported; a
\* failed evaluation of a mesh does not end the traversal (only a failure
\* outside the evaluation does), and the object it happened to still gets
\* its textures and particle systems counted.
C6_EveryObjectInOrder ==
    /\ Len(analyzed) <= Len(Enumeration)
    /\ \A k \in DOMAIN analyzed :
          LET r == analyzed[k]
          IN  /\ r.obj = Enumeration[k]
              /\ (r.obj.type = "MESH" /\ r.obj.eval \in RaisingOutcomes \cup {"none"}) =>
                    /\ r.textures_total_size_x8 = TextureEstimates_x8(r.obj)
                    /\ r.total_x8 - r.textures_total_size_x8
                           - BITS_PER_BYTE * r.mesh_data_original_size
                       = BITS_PER_BYTE * ParticleEstimates(r.obj)
    /\ outcome = "complete" => Len(analyzed) = Len(Enumeration)
    /\ outcome = "provider_failure" =>
          /\ Len(analyzed) < Len(Enumeration)
          /\ Enumeration[Len(analyzed) + 1].fault

\* A run has completed in which the first of two objects was a mesh whose
\* evaluation raised, with a texture and a particle system of its own.
C6_Witness ==
    /\ outcome = "complete"
    /\ Len(analyzed) = 2
    /\ analyzed[1].obj.type = "MESH"
    /\ analyzed[1].obj.eval \in RaisingOutcomes
    /\ analyzed[1].textures_total_size_x8 > 0
    /\ ParticleEstimates(analyzed[1].obj) > 0

-----------------------------------------------------------------------------
\* Properties: the estimates (checked under SpecEst).

TextureDone == est.fn = "texture" /\ est.done

\* C7 as stated: the estimate is w*h*C*(B/8) with C the reported channel
\* count c, or 4 if c is 0, and B the reported depth d when d < c, otherwise
\* d divided by the channel count, and 8 when d is 0.
C7_TextureEstimateAsStated ==
    TextureDone =>
        LET w == est.input.size[1]
            h == est.input.size[2]
            c == est.input.channels
            d == est.input.depth
            C == IF c = 0 THEN 4 ELSE c
            B == IF d = 0 THEN 8 ELSE IF d < c THEN d ELSE d \div C
        IN  est.out_x8 = w * h * C * B

\* C7 amended: B is the reported depth d when d < c or when c is 0,
\* otherwise the whole part of d / c, and 8 when d is 0.  A 1024 x 1024
\* image with 4 channels of 8 bits (a reported depth of 32) comes to
\* 4,194,304 bytes.
C7_TextureEstimate ==
    TextureDone =>
        LET w == est.input.size[1]
            h == est.input.size[2]
            c == est.input.channels
            d == est.input.depth
            C == IF c = 0 THEN 4 ELSE c
            B == IF d = 0 THEN 8
                 ELSE IF d < c \/ c = 0 THEN d
                 ELSE CHOOSE q \in 1 .. d : q * c <= d /\ d < (q + 1) * c
        IN  /\ est.out_x8 = w * h * C * B
            /\ (w = 1024 /\ h = 1024 /\ c = 4 /\ d = 32)
                   => est.out_x8 = 4194304 * BITS_PER_BYTE

\* The estimate of the 1024 x 1024 RGBA image has been computed.
C7_Witness ==
    /\ TextureDone
    /\ est.input = Image(1024, 1024, 4, 32)
    /\ est.out_x8 = 4194304 * BITS_PER_BYTE

\* C8 as stated: every estimate is a non-negative whole number of bytes and
\* does not decrease when any one of its count inputs grows.
C8_EstimatesMonotoneAsStated ==
    est.done =>
        /\ est.out_x8 >= 0
        /\ est.out_x8 % BITS_PER_BYTE = 0
        /\ est.up_x8 >= est.out_x8

\* C8 amended: the geometry, curve and particle estimates are non-negative
\* whole numbers of bytes and do not decrease when one of their count inputs
\* grows; the texture estimate is non-negative, may be a fraction of a byte
\* (a multiple of 1/8), and does not decrease when the width or the height
\* grows.
C8_EstimatesMonotone ==
    est.done =>
        /\ est.out_x8 >= 0
        /\ est.fn # "texture" =>
              /\ est.out_x8 % BITS_PER_BYTE = 0
              /\ est.up_x8 >= est.out_x8
        /\ (est.fn = "texture" /\ est.axis.field \in {"width", "height"}) =>
              est.up_x8 >= est.out_x8

\* A hair system's estimate has grown with its hair_step.
C8_Witness ==
    /\ est.done /\ est.fn = "particles"
    /\ est.input.type = "HAIR" /\ est.input.count > 0
    /\ est.axis.field = "hair_step"
    /\ est.up_x8 > est.out_x8

\* C9: the mesh estimate is 12 v + 8 e + 8 l + 12 p + 8 (entries of all UV
\* layers) + 16 (entries of all vertex-colour layers), plus 12 l exactly
\* when the mesh has custom normals; the cube comes to 456 bytes.
C9_MeshEstimate ==
    (est.fn = "mesh" /\ est.done) =>
        LET m == est.input
            uv == SumOver(DOMAIN m.uv_layers, m.uv_layers)
            vc == SumOver(DOMAIN m.vertex_colors, m.vertex_colors)
            bytes == 12 * m.vertices + 8 * m.edges + 8 * m.loops
                     + 12 * m.polygons + 8 * uv + 16 * vc
        IN  /\ m.has_custom_normals => est.out_x8 = (bytes + 12 * m.loops) * BITS_PER_BYTE
            /\ ~m.has_custom_normals => est.out_x8 = bytes * BITS_PER_BYTE
            /\ m = Mesh(8, 12, 24, 6, <<>>, <<>>, FALSE) => est.out_x8 = 456 * BITS_PER_BYTE

\* The cube's estimate has been computed.
C9_Witness ==
    /\ est.fn = "mesh" /\ est.done
    /\ est.input = CubeMesh
    /\ est.out_x8 = 456 * BITS_PER_BYTE

\* Whether 1024^k <= n, for a whole number n of bytes.
RECURSIVE AtLeastPow1024(_, _)
AtLeastPow1024(n, k) ==
    IF k = 0 THEN n >= 1 ELSE AtLeastPow1024(n \div KILO, k - 1)

\* C10: every estimate is formatted without failure; 0 as "0 B", and a
\* positive size with the unit of index k, the largest k in 0..4 with
\* 1024^k <= size, and the value size / 1024^k to two decimals.
C10_FormatSizeUnit ==
    est.done =>
        /\ ~est.text.raises
        /\ est.out_x8 = 0 =>
              est.text = [raises |-> FALSE, s_x100 |-> 0, decimals |-> FALSE, unit |-> "B"]
        /\ est.out_x8 > 0 =>
              \E k \in 0 .. 4 :
                  /\ AtLeastPow1024(est.out_x8 \div BITS_PER_BYTE, k)
                  /\ \A j \in (k + 1) .. 4 :
                        ~AtLeastPow1024(est.out_x8 \div BITS_PER_BYTE, j)
                  /\ est.text.unit = size_name[k + 1]
                  /\ est.text.s_x100 = RoundedValue_x100(est.out_x8, k)
        /\ est.out_x8 = 1024 * BITS_PER_BYTE =>
              est.text.s_x100 = 100 /\ est.text.unit = "KB"
        /\ est.out_x8 = 1048576 * BITS_PER_BYTE =>
              est.text.s_x100 = 100 /\ est.text.unit = "MB"

-----------------------------------------------------------------------------
\* The report's way from profile_blend_file through cli.main.

\* C11: a run on a scene file that opened and resolved its objects has, when
\* it exits after a completed analysis, a report with success status in
\* analysis_data, exactly one call of the serializer when --save was given
\* and one call of the visualizer when --web was given; and neither is
\* called for an analysis that failed.
C11_ReportReachesItsConsumers ==
    /\ (pc = "exited" /\ outcome = "complete") =>
          /\ StatusIs(analysis_data, "success")
          /\ serialized = (IF args.save THEN 1 ELSE 0)
          /\ visualized = (IF args.web THEN 1 ELSE 0)
    /\ (~args.input_is_yaml /\ outcome \notin {"running", "complete"}) =>
          serialized = 0 /\ visualized = 0

-----------------------------------------------------------------------------
\* The temporary mesh of the evaluation.

\* to_mesh_clear did not itself fail for any object of the traversal.
ClearNeverRaises ==
    \A k \in DOMAIN objects_to_analyze :
        ~(objects_to_analyze[k].type = "MESH"
          /\ objects_to_analyze[k].eval = "raise_clear")

\* C12: a mesh that to_mesh returned is handed back with to_mesh_clear
\* before analyze_object goes on to the materials, also when reading its
\* counts or estimating it raises; so between the steps of the traversal
\* and at its end the provider holds no temporary mesh of the analysis.
C12_TempMeshNeverOutlivesItsObject ==
    ClearNeverRaises => temp_meshes = 0

====
